---- MODULE Spec2Model ----
(***************************************************************************)
(* ChordDetector (src/src/js/chord-detector.js, the class at line 989):    *)
(* the hysteresis state machine of update() and the self-driven            *)
(* start()/stop() loop.                                                    *)
(*                                                                         *)
(* Confidences, strengths and thresholds are in thousandths (0.45 = 450).  *)
(* Times are integer milliseconds of performance.now().  The signal        *)
(* processing that turns a spectrum into a detection candidate is the      *)
(* frame input of update: each Update draws the loudness, the gate         *)
(* outcomes, the active pitch-class count and the candidate from small     *)
(* sets.                                                                   *)
(***************************************************************************)
EXTENDS Integers, Sequences, FiniteSets, TLC

VARIABLES
  opts,                    \* the constructor's options (never change)
  signal,                  \* the kind of audio: which frames update is given
  spectrum,                \* the frame the analyser holds while the signal is "same"
  clock,                   \* performance.now()
  lastChord,               \* this.lastChord
  lastChangeTime,          \* this.lastChangeTime
  stableChordCount,        \* this.stableChordCount
  chordConfidenceHistory,  \* this.chordConfidenceHistory
  adaptiveThreshold,       \* this.adaptiveThreshold
  quietFrames,             \* this.quietFrames
  started,                 \* this._started
  rafId,                   \* this._rafId (0 = null)
  rafQueue,                \* ids of the animation-frame requests still queued
  lastTick,                \* this._lastTick
  calls,                   \* the onChord invocations of the latest update
  obs,                     \* what the latest update saw (history variable)
  updatedWhileStopped,     \* the loop invoked update while _started was false
  buffers,                 \* the analyser's fftSize and the detector's buffers
  arg,                     \* the input of the function under study
  ret,                     \* what the function under study returned
  noiseFloor,              \* this.noiseFloor
  dynamicGate,             \* this.dynamicGate
  enableBassBias,          \* this.enableBassBias
  bassTrack,               \* this.bassHistory, as the updates leave it
  twin                     \* a second detector, given the same frames

vars == <<opts, signal, spectrum, clock, lastChord, lastChangeTime, stableChordCount,
          chordConfidenceHistory, adaptiveThreshold, quietFrames, started,
          rafId, rafQueue, lastTick, calls, obs, updatedWhileStopped,
          buffers, arg, ret, noiseFloor, dynamicGate, enableBassBias,
          bassTrack, twin>>

\* the fields the frame inputs stand for, and the second detector
rest == <<noiseFloor, dynamicGate, enableBassBias, bassTrack, twin>>

\* what the hysteresis and the loop leave alone
aux == <<buffers, arg, ret, rest>>

loopVars == <<started, rafId, rafQueue, lastTick, updatedWhileStopped>>

----------------------------------------------------------------------------
(* Bounds of the model *)

\* the clock is kept in 0..MaxClock (Tick shifts the time origin at the top)
MaxClock == 3
\* updates are not taken once stableChordCount would pass this
MaxCount == 4
\* updates are not taken once quietFrames would pass this
MaxQuiet == 3
\* animation-frame ids are 1..MaxRaf
MaxRaf == 3

(* Program constants *)

quietFramesMax == 2
rmsGate == 15
ThresholdMin == 250
ThresholdMax == 650
MaxConfidenceHistory == 10

NoChord == "null"
Names == {"C", "Am"}

Max(a, b) == IF a >= b THEN a ELSE b
Min(a, b) == IF a <= b THEN a ELSE b

RECURSIVE SumSeq(_)
SumSeq(s) == IF s = <<>> THEN 0 ELSE Head(s) + SumSeq(Tail(s))

----------------------------------------------------------------------------
(* The detector's fields as one record, for the helpers below *)

Self ==
  [ lastChord |-> lastChord,
    lastChangeTime |-> lastChangeTime,
    stableChordCount |-> stableChordCount,
    chordConfidenceHistory |-> chordConfidenceHistory,
    adaptiveThreshold |-> adaptiveThreshold,
    quietFrames |-> quietFrames,
    calls |-> <<>> ]

\* _clearChord as it would be if it kept the confidence history
ClearChordKeepsHistory(d, t) ==
  IF d.lastChord # NoChord
  THEN [d EXCEPT !.lastChord = NoChord,
                 !.lastChangeTime = t,
                 !.stableChordCount = 0,
                 !.calls = Append(@, [name |-> NoChord, confidence |-> 0])]
  ELSE d

\* _clearChord as it would be without the test of line 1870
ClearChordUnguarded(d, t) ==
  [d EXCEPT !.lastChord = NoChord,
            !.lastChangeTime = t,
            !.chordConfidenceHistory = <<>>,
            !.stableChordCount = 0,
            !.calls = Append(@, [name |-> NoChord, confidence |-> 0])]

\* _clearChord; t is its performance.now() reading
ClearChord(d, t) ==
  IF d.lastChord # NoChord
  THEN [d EXCEPT !.lastChord = NoChord,
                 !.lastChangeTime = t,
                 !.chordConfidenceHistory = <<>>,
                 !.stableChordCount = 0,
                 !.calls = Append(@, [name |-> NoChord, confidence |-> 0])]
  ELSE d

\* _setCurrentChord as it would be if it reported the end of the replaced chord
\* before the new one
SetCurrentChordClearFirst(d, name, confidence, harmonicStrength, t) ==
  LET pushed == Append(d.chordConfidenceHistory, confidence)
      cleared == IF d.lastChord # NoChord
                 THEN Append(d.calls, [name |-> NoChord, confidence |-> 0])
                 ELSE d.calls
  IN [d EXCEPT !.lastChord = name,
               !.lastChangeTime = t,
               !.stableChordCount = opts.requiredStableFrames,
               !.chordConfidenceHistory =
                  IF Len(pushed) > MaxConfidenceHistory THEN Tail(pushed) ELSE pushed,
               !.calls = Append(cleared, [name |-> name, confidence |-> confidence,
                                          harmonicStrength |-> harmonicStrength])]

\* _setCurrentChord; t is its performance.now() reading
SetCurrentChord(d, name, confidence, harmonicStrength, t) ==
  LET pushed == Append(d.chordConfidenceHistory, confidence)
  IN [d EXCEPT !.lastChord = name,
               !.lastChangeTime = t,
               !.stableChordCount = opts.requiredStableFrames,
               !.chordConfidenceHistory =
                  IF Len(pushed) > MaxConfidenceHistory THEN Tail(pushed) ELSE pushed,
               !.calls = Append(@, [name |-> name, confidence |-> confidence,
                                    harmonicStrength |-> harmonicStrength])]

\* _handleSilence; now and t are the clock readings of lines 1828 and 1872
HandleSilence(d, now, t) ==
  IF d.lastChord # NoChord /\ 2 * (now - d.lastChangeTime) > 3 * opts.holdMsExit
  THEN ClearChord(d, t)
  ELSE d

\* _handleSingleNote
HandleSingleNote(d) ==
  [d EXCEPT !.stableChordCount = Max(0, @ - 2)]

\* _updateAdaptiveThreshold as it would be without the lower clamp
UpdateAdaptiveThresholdNoFloor(d, activeBins, spectralClarity, detection) ==
  LET hist == d.chordConfidenceHistory
      a1 == IF activeBins > 6 THEN 50 ELSE 0
      a2 == IF spectralClarity > 800 /\ detection.harmonicStrength > 700
            THEN -80 ELSE 0
      a3 == IF Len(hist) > 5 /\ SumSeq(hist) > 600 * Len(hist) THEN -30 ELSE 0
  IN Min(ThresholdMax, opts.confEnter + a1 + a2 + a3)

\* _updateAdaptiveThreshold as it would be without the upper clamp
UpdateAdaptiveThresholdNoCeiling(d, activeBins, spectralClarity, detection) ==
  LET hist == d.chordConfidenceHistory
      a1 == IF activeBins > 6 THEN 50 ELSE 0
      a2 == IF spectralClarity > 800 /\ detection.harmonicStrength > 700
            THEN -80 ELSE 0
      a3 == IF Len(hist) > 5 /\ SumSeq(hist) > 600 * Len(hist) THEN -30 ELSE 0
  IN Max(ThresholdMin, opts.confEnter + a1 + a2 + a3)

\* _updateAdaptiveThreshold: the new this.adaptiveThreshold
UpdateAdaptiveThreshold(d, activeBins, spectralClarity, detection) ==
  LET hist == d.chordConfidenceHistory
      a1 == IF activeBins > 6 THEN 50 ELSE 0
      a2 == IF spectralClarity > 800 /\ detection.harmonicStrength > 700
            THEN -80 ELSE 0
      a3 == IF Len(hist) > 5 /\ SumSeq(hist) > 600 * Len(hist) THEN -30 ELSE 0
  IN Max(ThresholdMin, Min(ThresholdMax, opts.confEnter + a1 + a2 + a3))

\* _getAdaptiveStableFrames
GetAdaptiveStableFrames(detection) ==
  IF detection.confidence > 800 /\ detection.harmonicStrength > 700
  THEN Max(1, opts.requiredStableFrames - 2)
  ELSE IF detection.confidence > 650
  THEN Max(2, opts.requiredStableFrames - 1)
  ELSE opts.requiredStableFrames

\* update, lines 1197-1198
EnterOK(detection, threshold) == detection.confidence >= threshold
ExitOK(detection, threshold) == 10 * detection.confidence >= 8 * threshold

\* lines 1205-1215 as they would be without the holdMsEnter test
NewCandidateNoDwell(d, detection, now, t) ==
  IF EnterOK(detection, d.adaptiveThreshold)
  THEN LET counted == [d EXCEPT !.stableChordCount = @ + 1]
       IN IF counted.stableChordCount >= GetAdaptiveStableFrames(detection)
          THEN SetCurrentChord(counted, detection.name, detection.confidence,
                               detection.harmonicStrength, t)
          ELSE counted
  ELSE [d EXCEPT !.stableChordCount = Max(0, @ - 1)]

\* update, lines 1205-1215: the candidate is not the held chord
NewCandidate(d, detection, now, t) ==
  IF EnterOK(detection, d.adaptiveThreshold)
  THEN LET counted == [d EXCEPT !.stableChordCount = @ + 1]
       IN IF counted.stableChordCount >= GetAdaptiveStableFrames(detection)
             /\ (now - d.lastChangeTime) > opts.holdMsEnter
          THEN SetCurrentChord(counted, detection.name, detection.confidence,
                               detection.harmonicStrength, t)
          ELSE counted
  ELSE [d EXCEPT !.stableChordCount = Max(0, @ - 1)]

\* lines 1216-1222 as they would be if the held chord were reported again on
\* every frame that confirms it
SameCandidateReported(d, detection, now, t) ==
  SetCurrentChord(d, detection.name, detection.confidence,
                  detection.harmonicStrength, t)

\* lines 1216-1222 as they would be if the exit threshold were the configured
\* confExit
SameCandidateConfExit(d, detection, now, t) ==
  IF detection.confidence >= d.confExit
  THEN [d EXCEPT !.stableChordCount = Min(@ + 1, opts.requiredStableFrames)]
  ELSE IF (now - d.lastChangeTime) > opts.holdMsExit
  THEN ClearChord(d, t)
  ELSE d

\* update, lines 1216-1222: the candidate is the held chord
SameCandidate(d, detection, now, t) ==
  IF ExitOK(detection, d.adaptiveThreshold)
  THEN [d EXCEPT !.stableChordCount = Min(@ + 1, opts.requiredStableFrames)]
  ELSE IF (now - d.lastChangeTime) > opts.holdMsExit
  THEN ClearChord(d, t)
  ELSE d

\* lines 1191-1222 as they would be if the candidate were not compared with
\* the held chord
HysteresisNoCompare(d, f, now, t) ==
  LET d2 == [d EXCEPT !.adaptiveThreshold =
               UpdateAdaptiveThreshold(d, f.activeCount, f.spectralClarity, f.detection)]
  IN NewCandidate(d2, f.detection, now, t)

\* update, lines 1191-1222: a candidate was found
Hysteresis(d, f, now, t) ==
  LET d2 == [d EXCEPT !.adaptiveThreshold =
               UpdateAdaptiveThreshold(d, f.activeCount, f.spectralClarity, f.detection)]
  IN IF f.detection.name # d2.lastChord
     THEN NewCandidate(d2, f.detection, now, t)
     ELSE SameCandidate(d2, f.detection, now, t)

\* lines 1124-1133 as they would be if the first quiet frame were handled as
\* silence
RmsQuietAtOnce(d, now, t) ==
  HandleSilence([d EXCEPT !.quietFrames = @ + 1], now, t)

\* update, lines 1124-1133: the loudness is below rmsGate
RmsQuiet(d, now, t) ==
  LET d1 == [d EXCEPT !.quietFrames = @ + 1]
  IN IF d1.quietFrames >= quietFramesMax
     THEN HandleSilence(d1, now, t)
     ELSE d1

\* lines 1137-1222 as they would be if a frame without chroma were handled
\* as silence
AnalyseSilentClears(d, f, now, t) ==
  IF f.silent \/ f.gated
  THEN HandleSilence(d, now, t)
  ELSE IF f.activeCount < 2
  THEN HandleSingleNote(d)
  ELSE Hysteresis(d, f, now, t)

\* update, lines 1137-1222: a spectral frame is fetched
Analyse(d, f, now, t) ==
  IF f.silent
  THEN d
  ELSE IF f.gated
  THEN HandleSilence(d, now, t)
  ELSE IF f.activeCount < 2
  THEN HandleSingleNote(d)
  ELSE Hysteresis(d, f, now, t)

\* update; now is the clock when it is called and t
\* the clock when it reaches _setCurrentChord or _clearChord
Update(d, f, now, t) ==
  IF f.absent
  THEN d
  ELSE IF opts.getRms /\ f.rms < rmsGate
  THEN RmsQuiet(d, now, t)
  ELSE Analyse(IF opts.getRms THEN [d EXCEPT !.quietFrames = 0] ELSE d,
               f, now, t)

----------------------------------------------------------------------------
(* The self-driven loop: start, stop and the animation-frame callbacks *)

LoopSelf ==
  [ started |-> started, rafId |-> rafId, rafQueue |-> rafQueue, ok |-> TRUE ]

\* requestAnimationFrame(loop) with its result stored in this._rafId; ok turns
\* FALSE when the model has no id left
RequestAnimationFrame(l) ==
  LET free == (1..MaxRaf) \ (l.rafQueue \cup {l.rafId})
  IN IF free = {}
     THEN [l EXCEPT !.ok = FALSE]
     ELSE LET id == CHOOSE i \in free : \A j \in free : i <= j
          IN [l EXCEPT !.rafQueue = @ \cup {id}, !.rafId = id]

\* start()
StartOp(l) ==
  IF l.started
  THEN l
  ELSE RequestAnimationFrame([l EXCEPT !.started = TRUE])

\* stop()
StopOp(l) ==
  IF ~l.started
  THEN l
  ELSE [l EXCEPT !.started = FALSE,
                 !.rafQueue = IF l.rafId # 0 THEN @ \ {l.rafId} ELSE @,
                 !.rafId = 0]

\* what the host's chord callback may call on the detector
CallbackScripts == { <<>>, <<"stop">>, <<"stop", "start">> }

RECURSIVE RunScript(_, _)
RunScript(l, script) ==
  IF script = <<>>
  THEN l
  ELSE RunScript(IF Head(script) = "stop" THEN StopOp(l) ELSE StartOp(l),
                 Tail(script))

\* loop, line 1096
FrameInterval == 1000 \div Max(1, opts.maxFps)

\* loop, line 1097: whether this callback runs update
TickDue(now) == lastTick = 0 \/ (now - lastTick) >= FrameInterval

\* loop, line 1101
Reschedule(l) == IF l.started THEN RequestAnimationFrame(l) ELSE l

----------------------------------------------------------------------------
(* Frame inputs *)

ConfidenceValues == {100, 350, 700, 900}
ActiveCounts == {3, 7}
\* spectral clarity and harmonic strength of a frame: a blurred and a clear one
Clarities == { <<500, 500>>, <<900, 900>> }

NoDetection == [name |-> NoChord, confidence |-> 0, harmonicStrength |-> 0]

\* a frame whose loudness is below rmsGate (0.010 < 0.015)
QuietFrame == [rms |-> 10, silent |-> FALSE, gated |-> FALSE, activeCount |-> 0,
               spectralClarity |-> 0, detection |-> NoDetection,
               absent |-> FALSE]
\* update called while this.analyser is null
AbsentFrame == [QuietFrame EXCEPT !.rms = rmsGate, !.absent = TRUE]
\* an all-zero spectrum: _computeEnhancedChroma returns null
SilentFrame == [QuietFrame EXCEPT !.rms = rmsGate, !.silent = TRUE]
\* a frame failing the energy, clarity or flatness gate
GatedFrame == [QuietFrame EXCEPT !.rms = rmsGate, !.gated = TRUE]
\* a frame with one active pitch class
SingleNoteFrame == [QuietFrame EXCEPT !.rms = rmsGate, !.activeCount = 1]
\* frames with a chord candidate
DetectFrames ==
  { [rms |-> rmsGate, silent |-> FALSE, gated |-> FALSE, activeCount |-> a,
     spectralClarity |-> c[1], absent |-> FALSE,
     detection |-> [name |-> n, confidence |-> k, harmonicStrength |-> c[2]]] :
    a \in ActiveCounts, c \in Clarities, n \in Names, k \in ConfidenceValues }

InactiveFrames ==
  (IF opts.getRms THEN {QuietFrame} ELSE {}) \cup {SilentFrame, GatedFrame}

\* the candidate of f is below the exit threshold of the update that takes it
BelowExit(f) ==
  ~ExitOK(f.detection,
          UpdateAdaptiveThreshold(Self, f.activeCount, f.spectralClarity, f.detection))

\* the frames update can be given under each kind of signal
Frames ==
  CASE signal = "any" ->
         InactiveFrames \cup {SingleNoteFrame} \cup DetectFrames
    [] signal = "dropouts" ->
         InactiveFrames \cup {AbsentFrame, SingleNoteFrame}
         \cup { f \in DetectFrames : f.detection.confidence = 900 }
    [] signal = "inactive" -> InactiveFrames
    [] signal = "unvoiced" ->
         InactiveFrames \cup {AbsentFrame, SingleNoteFrame}
    [] signal = "lowconf" -> { f \in DetectFrames : BelowExit(f) }
    [] signal = "steady" -> { f \in DetectFrames : f.detection.confidence = 900 }
    [] signal = "pauses" ->
         InactiveFrames \cup {SingleNoteFrame}
         \cup { f \in DetectFrames : f.detection.confidence = 900 }
    [] signal = "same" -> { spectrum }

PathOf(f) ==
  IF f.absent THEN "absent"
  ELSE IF opts.getRms /\ f.rms < rmsGate THEN "rms"
  ELSE IF f.silent THEN "silent"
  ELSE IF f.gated THEN "gate"
  ELSE IF f.activeCount < 2 THEN "single"
  ELSE "detect"

\* the history variable after an update that took frame f at clock reading now
\* and left the detector as d:
\*   path      the branch of update taken
\*   name      the candidate's chord name
\*   runLen    how many updates in a row, this one included, had this candidate
\*             name with confidence >= the entry threshold
\*   lowSince  while a chord is held: the clock reading of the first update
\*             since which no candidate had confidence >= the exit threshold
\*   beat      alternates with every update once the signal has faded, so that
\*             each of those updates is a step
Observe(f, now, d) ==
  LET path == PathOf(f)
      qualifies == path = "detect" /\ EnterOK(f.detection, d.adaptiveThreshold)
      strong == path = "detect" /\ ExitOK(f.detection, d.adaptiveThreshold)
  IN [ path |-> path,
       name |-> IF path = "detect" THEN f.detection.name ELSE NoChord,
       runLen |-> IF ~qualifies THEN 0
                  ELSE IF obs.runLen > 0 /\ obs.name = f.detection.name
                  THEN Min(obs.runLen + 1, MaxCount)
                  ELSE 1,
       lowSince |-> IF strong \/ (d.lastChord = NoChord /\ d.calls = <<>>) THEN -1
                    ELSE IF obs.lowSince = -1 THEN now
                    ELSE obs.lowSince,
       beat |-> IF signal = "any" THEN 0 ELSE 1 - obs.beat ]

----------------------------------------------------------------------------
(* Initial states *)

\* the options of the repository's tests (test/chord-detector.test.js:23-30)
TestOpts ==
  [ confEnter |-> 0, holdMsEnter |-> 0, holdMsExit |-> 0,
    requiredStableFrames |-> 1, getRms |-> FALSE, maxFps |-> 1000 ]
\* the shape of the defaults: three stable frames, hold times, no loudness
\* provider
PlainOpts ==
  [ confEnter |-> 450, holdMsEnter |-> 2, holdMsExit |-> 2,
    requiredStableFrames |-> 3, getRms |-> FALSE, maxFps |-> 1000 ]
\* a high entry threshold and a loudness provider
GatedOpts ==
  [ confEnter |-> 900, holdMsEnter |-> 0, holdMsExit |-> 1,
    requiredStableFrames |-> 3, getRms |-> TRUE, maxFps |-> 1000 ]

Configs == {TestOpts, PlainOpts, GatedOpts}

\* a value that is not set: no pitch class, no chroma map
Undefined == -1

\* the buffers, and the function input and result, where they play no part
NoBuffers == "none"
NoArg == "none"

\* there is no second detector
NoTwin == "none"

\* the gate and bass fields as the constructor leaves them (dynamicGate 0.04
\* in ten-thousandths), and no second detector
RestConstructed ==
  /\ noiseFloor = 0
  /\ dynamicGate = 400
  /\ enableBassBias = TRUE
  /\ bassTrack = [i \in 0..11 |-> 0]
  /\ twin = NoTwin

\* no function is under study
Idle == buffers = NoBuffers /\ arg = NoArg /\ ret = NoArg /\ RestConstructed

\* the state the constructor leaves
Constructed ==
  /\ clock = 0
  /\ lastChord = NoChord
  /\ lastChangeTime = 0
  /\ stableChordCount = 0
  /\ chordConfidenceHistory = <<>>
  /\ adaptiveThreshold = opts.confEnter
  /\ quietFrames = 0
  /\ started = FALSE
  /\ rafId = 0
  /\ rafQueue = {}
  /\ lastTick = 0
  /\ calls = <<>>
  /\ obs = [path |-> "none", name |-> NoChord, runLen |-> 0, lowSince |-> -1,
            beat |-> 0]
  /\ updatedWhileStopped = FALSE

\* a detector that has been running: six chords set in a row at confidence
\* 0.7 with none cleared in between (_setCurrentChord pushes one history
\* entry each time), the last of them "C", set at the clock's origin
LongRunning ==
  /\ clock = 0
  /\ lastChord = "C"
  /\ lastChangeTime = 0
  /\ stableChordCount = opts.requiredStableFrames
  /\ chordConfidenceHistory = <<700, 700, 700, 700, 700, 700>>
  /\ adaptiveThreshold = opts.confEnter
  /\ quietFrames = 0
  /\ started = FALSE
  /\ rafId = 0
  /\ rafQueue = {}
  /\ lastTick = 0
  /\ calls = <<>>
  /\ obs = [path |-> "detect", name |-> "C", runLen |-> 1, lowSince |-> -1,
            beat |-> 0]
  /\ updatedWhileStopped = FALSE

Init ==
  /\ signal = "any"
  /\ spectrum = SilentFrame
  /\ Idle
  /\ \/ opts \in Configs /\ Constructed
     \/ opts = PlainOpts /\ LongRunning

----------------------------------------------------------------------------
(* Actions *)

\* the detector's fields become those of record d
Becomes(d) ==
  /\ lastChord' = d.lastChord
  /\ lastChangeTime' = d.lastChangeTime
  /\ stableChordCount' = d.stableChordCount
  /\ chordConfidenceHistory' = d.chordConfidenceHistory
  /\ adaptiveThreshold' = d.adaptiveThreshold
  /\ quietFrames' = d.quietFrames
  /\ calls' = d.calls

WithinBounds(d, t) ==
  /\ t <= MaxClock
  /\ d.stableChordCount <= MaxCount
  /\ d.quietFrames <= MaxQuiet

\* the host calls update() itself; dt is the time that passes inside the call
\* before _setCurrentChord or _clearChord reads the clock (it shows only when
\* one of them runs)
ExternalUpdate ==
  \E f \in Frames :
    \E now \in {clock}, d0 \in {Update(Self, f, clock, clock)} :
    \E dt \in (IF d0.calls = <<>> THEN {0} ELSE {0, 1}) :
    \E t \in {clock + dt} :
    \E d \in {IF dt = 0 THEN d0 ELSE Update(Self, f, now, t)} :
       /\ WithinBounds(d, t)
       /\ Becomes(d)
       /\ clock' = t
       /\ obs' = Observe(f, now, d)
       /\ UNCHANGED <<aux, opts, signal, spectrum, loopVars>>

\* time passes between calls
Tick ==
  /\ clock < MaxClock
  /\ clock' = clock + 1
  /\ calls' = <<>>
  /\ UNCHANGED <<aux, opts, signal, spectrum, lastChord, lastChangeTime, stableChordCount,
                 chordConfidenceHistory, adaptiveThreshold, quietFrames,
                 loopVars, obs>>

Next == ExternalUpdate \/ Tick

Spec == Init /\ [][Next]_vars

----------------------------------------------------------------------------
(* The detector driving itself: start(), stop() and the loop *)

LoopBecomes(l) ==
  /\ l.ok
  /\ started' = l.started
  /\ rafId' = l.rafId
  /\ rafQueue' = l.rafQueue

\* the host calls start()
Start ==
  /\ LoopBecomes(StartOp(LoopSelf))
  /\ calls' = <<>>
  /\ UNCHANGED <<aux, opts, signal, spectrum, clock, lastChord, lastChangeTime, stableChordCount,
                 chordConfidenceHistory, adaptiveThreshold, quietFrames,
                 lastTick, obs, updatedWhileStopped>>

\* the host calls stop()
Stop ==
  /\ LoopBecomes(StopOp(LoopSelf))
  /\ calls' = <<>>
  /\ UNCHANGED <<aux, opts, signal, spectrum, clock, lastChord, lastChangeTime, stableChordCount,
                 chordConfidenceHistory, adaptiveThreshold, quietFrames,
                 lastTick, obs, updatedWhileStopped>>

\* a queued animation-frame request runs loop, which runs update; the chord
\* callback, when update invokes it, runs script
LoopUpdate ==
  \E id \in rafQueue, f \in Frames :
    \E now \in {clock}, d0 \in {Update(Self, f, clock, clock)} :
    \E dt \in (IF d0.calls = <<>> THEN {0} ELSE {0, 1}),
       script \in (IF d0.calls = <<>> THEN {<<>>} ELSE CallbackScripts) :
    \E t \in {clock + dt} :
    \E d \in {IF dt = 0 THEN d0 ELSE Update(Self, f, now, t)} :
    LET fired == [LoopSelf EXCEPT !.rafQueue = @ \ {id}]
        called == RunScript(fired, script)
    IN /\ TickDue(now)
       /\ WithinBounds(d, t)
       /\ lastTick' = now
       /\ Becomes(d)
       /\ clock' = t
       /\ obs' = Observe(f, now, d)
       /\ updatedWhileStopped' = (updatedWhileStopped \/ ~started)
       /\ LoopBecomes(Reschedule(called))
       /\ UNCHANGED <<aux, opts, signal, spectrum>>

\* a queued animation-frame request runs loop less than a frame interval after
\* the last update
LoopSkip ==
  \E id \in rafQueue :
    /\ ~TickDue(clock)
    /\ LoopBecomes(Reschedule([LoopSelf EXCEPT !.rafQueue = @ \ {id}]))
    /\ calls' = <<>>
    /\ UNCHANGED <<aux, opts, signal, spectrum, clock, lastChord, lastChangeTime, stableChordCount,
                   chordConfidenceHistory, adaptiveThreshold, quietFrames,
                   lastTick, obs, updatedWhileStopped>>

InitLoop ==
  /\ opts = TestOpts
  /\ signal = "steady"
  /\ spectrum = SilentFrame
  /\ Idle
  /\ Constructed

NextLoop == Start \/ Stop \/ LoopUpdate \/ LoopSkip \/ Tick

LoopSpec == InitLoop /\ [][NextLoop]_vars

----------------------------------------------------------------------------
(* The signal fading for good, with update called and time passing forever *)

\* from now on every frame is inactive, or every candidate is below the exit
\* threshold
Degrade ==
  /\ signal = "any"
  /\ signal' \in {"inactive", "lowconf"}
  /\ calls' = <<>>
  /\ UNCHANGED <<aux, opts, spectrum, clock, lastChord, lastChangeTime, stableChordCount,
                 chordConfidenceHistory, adaptiveThreshold, quietFrames,
                 loopVars, obs>>

\* time passes with the clock at MaxClock: the time origin moves up by one,
\* which keeps every difference the code compares up to MaxClock
TickShift ==
  /\ clock = MaxClock
  /\ signal # "any"
  /\ lastChangeTime' = Max(0, lastChangeTime - 1)
  /\ lastTick' = Max(0, lastTick - 1)
  /\ obs' = [obs EXCEPT !.lowSince = IF @ > 0 THEN @ - 1 ELSE @]
  /\ calls' = <<>>
  /\ UNCHANGED <<aux, opts, signal, spectrum, clock, lastChord, stableChordCount,
                 chordConfidenceHistory, adaptiveThreshold, quietFrames,
                 started, rafId, rafQueue, updatedWhileStopped>>

InitFading ==
  /\ opts = PlainOpts
  /\ signal = "any"
  /\ spectrum = SilentFrame
  /\ Idle
  /\ Constructed

NextFading == ExternalUpdate \/ Tick \/ TickShift \/ Degrade

FadingSpec ==
  /\ InitFading
  /\ [][NextFading]_vars
  /\ WF_vars(ExternalUpdate)
  /\ WF_vars(Tick)
  /\ WF_vars(TickShift)

----------------------------------------------------------------------------
(* The same spectrum on every update, from construction on *)

InitSame ==
  /\ opts \in Configs
  /\ signal = "same"
  /\ spectrum \in
       InactiveFrames \cup {AbsentFrame, SingleNoteFrame} \cup DetectFrames
  /\ Idle
  /\ Constructed

SameSpec == InitSame /\ [][Next]_vars

----------------------------------------------------------------------------
(* Clear chords with dropouts: updates without an analyser, all-zero spectra,
   gated frames and single notes *)

InitDropouts ==
  /\ opts \in Configs
  /\ signal = "dropouts"
  /\ spectrum = SilentFrame
  /\ Idle
  /\ Constructed

DropoutSpec == InitDropouts /\ [][Next]_vars

----------------------------------------------------------------------------
(* The spectral buffer and the chroma weight map.  buffers holds
     provider      analyser.fftSize
     fftSize       this.fftSize
     bins          this.fftBins.length
     chromaMap     the number of bins this.chromaMap has weights for, or
                   Undefined while it is null
     chromaMapLen  this.chromaMapLen
     reads         what the last update did with the buffer, in order: each
                   reallocation, fetch and read with the sizes at that moment
     threw         the last update read a chroma map that was null *)

\* the sizes the analyser reports
FftSizes == {8, 16, 32}

\* constructor, lines 993-995 and 1084-1085
ConstructedBuffers(size) ==
  [ provider |-> size, fftSize |-> size, bins |-> size \div 2,
    chromaMap |-> Undefined, chromaMapLen |-> 0, reads |-> <<>>,
    threw |-> FALSE ]

\* one more entry of reads
Logged(b, op) ==
  [b EXCEPT !.reads = Append(@, [ op |-> op, bins |-> b.bins,
                                  provider |-> b.provider,
                                  chromaMap |-> b.chromaMap ])]

\* _rebuildChromaMap
RebuildChromaMap(b) ==
  [b EXCEPT !.chromaMap = b.bins, !.chromaMapLen = b.bins]

\* update, lines 1117-1122
AdaptBuffers(b) ==
  IF b.provider # 0 /\ b.provider # b.fftSize
  THEN Logged(RebuildChromaMap([b EXCEPT !.fftSize = b.provider,
                                         !.bins = b.provider \div 2]),
              "realloc")
  ELSE b

\* update, lines 1139-1145: _estimateTuning reads the buffer when the check is
\* due, and the map is rebuilt when the tuning changed
CheckTuning(b, due, changed) ==
  IF ~due THEN b
  ELSE IF changed THEN RebuildChromaMap(Logged(b, "tuning"))
  ELSE Logged(b, "tuning")

\* _computeEnhancedChroma as it would be without the test of the map
ComputeEnhancedChromaNoRebuild(b) ==
  [Logged(b, "aggregate") EXCEPT !.threw = (b.chromaMap = Undefined)]

\* _computeEnhancedChroma, lines 1276-1302: the map is rebuilt when it is
\* missing or of another length, then the loop reads the buffer and the map
ComputeEnhancedChroma(b) ==
  LET mapped == IF b.chromaMap = Undefined \/ b.chromaMapLen # b.bins
                THEN RebuildChromaMap(b) ELSE b
  IN [Logged(mapped, "aggregate") EXCEPT
        !.threw = (mapped.chromaMap = Undefined)]

\* what update does with the buffers on a frame that takes branch path
UpdateBuffers(b, path, due, changed) ==
  LET called == [b EXCEPT !.reads = <<>>, !.threw = FALSE]
      adapted == AdaptBuffers(called)
      fetched == Logged(adapted, "fetch")
      featured == Logged(CheckTuning(fetched, due, changed), "features")
  IN IF path = "absent" THEN called
     ELSE IF path = "rms" THEN adapted
     ELSE ComputeEnhancedChroma(featured)

\* the host calls update() on a detector with buffers
UpdateWithBuffers ==
  \E f \in Frames, due \in BOOLEAN, changed \in BOOLEAN :
    \E d \in {Update(Self, f, clock, clock)} :
       /\ WithinBounds(d, clock)
       /\ Becomes(d)
       /\ obs' = Observe(f, clock, d)
       /\ buffers' = UpdateBuffers(buffers, PathOf(f), due, changed)
       /\ UNCHANGED <<rest, arg, ret, opts, signal, spectrum, clock, loopVars>>

\* the analyser's fftSize is set to another size between two calls
ProviderResize ==
  \E size \in FftSizes \ {buffers.provider} :
    /\ buffers' = [buffers EXCEPT !.provider = size]
    /\ calls' = <<>>
    /\ UNCHANGED <<rest, arg, ret, opts, signal, spectrum, clock, lastChord,
                   lastChangeTime, stableChordCount, chordConfidenceHistory,
                   adaptiveThreshold, quietFrames, loopVars, obs>>

InitBuffers ==
  /\ RestConstructed
  /\ opts = GatedOpts
  /\ signal = "unvoiced"
  /\ spectrum = SilentFrame
  /\ Constructed
  /\ arg = NoArg
  /\ ret = NoArg
  /\ \E size \in FftSizes : buffers = ConstructedBuffers(size)

NextBuffers == UpdateWithBuffers \/ ProviderResize

BufferSpec == InitBuffers /\ [][NextBuffers]_vars

----------------------------------------------------------------------------
(* Pitch-class names, chord names and the chord-set event *)

NoteNames == <<"C", "C#", "D", "D#", "E", "F", "F#", "G", "G#", "A", "A#", "B">>

\* the % of JavaScript: the result has the sign of the dividend
JsRem(a, n) == IF a >= 0 THEN a % n ELSE -((-a) % n)

\* what indexing the 12-element array of names with i gives
NameAt(i) == IF i \in 0..11 THEN NoteNames[i + 1] ELSE "undefined"

\* _pcToName as it would be with a single %
PcToNameOneRem(pc) == NameAt(JsRem(pc, 12))

\* _pcToName
PcToName(pc) == NameAt(JsRem(JsRem(pc, 12) + 12, 12))

\* a null field of an event
Null == "null"

\* whether JavaScript takes the value of detection.bass as true
Truthy(v) == v # Undefined /\ v # 0

\* update, lines 1200-1203: the chord name as the sequence of the parts that
\* the template string joins
ChordName(detection) ==
  IF detection.inversion
  THEN <<PcToName(detection.root), detection.quality, "/",
         PcToName(detection.bass)>>
  ELSE <<PcToName(detection.root), detection.quality>>

\* _setCurrentChord, lines 1856-1866: the object given to onChord
ChordEvent(name, confidence, detection, spectralClarity) ==
  [ name |-> name,
    confidence |-> confidence,
    quality |-> detection.quality,
    root |-> PcToName(detection.root),
    bass |-> IF Truthy(detection.bass)
             THEN PcToName(detection.bass) ELSE Null,
    inversion |-> detection.inversion,
    harmonicStrength |-> detection.harmonicStrength,
    spectralClarity |-> spectralClarity ]

\* _pcToName is called with each integer of -MaxPc..MaxPc
MaxPc == 60

InitPc ==
  /\ RestConstructed
  /\ opts = TestOpts
  /\ signal = "any"
  /\ spectrum = SilentFrame
  /\ Constructed
  /\ buffers = NoBuffers
  /\ arg \in -MaxPc..MaxPc
  /\ ret = NoArg

CallPcToName ==
  /\ ret = NoArg
  /\ ret' = PcToName(arg)
  /\ UNCHANGED <<opts, signal, spectrum, clock, lastChord, lastChangeTime,
                 stableChordCount, chordConfidenceHistory, adaptiveThreshold,
                 quietFrames, loopVars, calls, obs, buffers, arg, rest>>

PcSpec == InitPc /\ [][CallPcToName]_vars

----------------------------------------------------------------------------
(* Template matching: _findBestChord and what it calls.  Chroma energies,
   scores and confidences are fixed-point numbers, Unit standing for 1.0. *)

Unit == 10000

PitchClasses == 0..11

Sum12(f) ==
  f[0] + f[1] + f[2] + f[3] + f[4] + f[5] + f[6] + f[7] + f[8] + f[9]
       + f[10] + f[11]

\* a quotient rounded to the nearest integer
RDiv(a, b) == (2 * a + b) \div (2 * b)

\* The value of the one element of S.  Written as Only({e(x) : x \in {d}}) it
\* is e(d) with d computed once, as a const holds a value computed once.
Only(S) == CHOOSE x \in S : TRUE

\* the Float32Array filled with the 12 values of f
Filled(f) ==
  (0 :> f[0]) @@ (1 :> f[1]) @@ (2 :> f[2]) @@ (3 :> f[3]) @@ (4 :> f[4])
  @@ (5 :> f[5]) @@ (6 :> f[6]) @@ (7 :> f[7]) @@ (8 :> f[8]) @@ (9 :> f[9])
  @@ (10 :> f[10]) @@ (11 :> f[11])

RECURSIVE SqrtBetween(_, _, _)
\* the largest r in lo..hi with r * r <= n
SqrtBetween(n, lo, hi) ==
  IF lo >= hi THEN lo
  ELSE Only({ IF mid * mid <= n THEN SqrtBetween(n, mid, hi)
              ELSE SqrtBetween(n, lo, mid - 1) :
              mid \in {(lo + hi + 1) \div 2} })

\* Math.sqrt, on sums of squares of fixed-point numbers
Sqrt(n) == SqrtBetween(n, 0, 4 * Unit)

\* _rotate as it would be if it turned the template the other way
RotateBackwards(arr, n) ==
  Filled([i \in PitchClasses |-> arr[(i + n) % 12]])

\* _rotate
Rotate(arr, n) == Filled([i \in PitchClasses |-> arr[(i - n + 12) % 12]])

\* _dot
Dot(a, b) == RDiv(Sum12([i \in PitchClasses |-> a[i] * b[i]]), Unit)

\* _norm
Norm(arr) ==
  Only({ IF sum = 0 THEN Filled([i \in PitchClasses |-> 0])
         ELSE Only({ Filled([i \in PitchClasses |-> RDiv(arr[i] * Unit, mag)]) :
                     mag \in {Sqrt(sum)} }) :
         sum \in {Sum12([i \in PitchClasses |-> arr[i] * arr[i]])} })

\* the N of _buildEnhancedTemplates, on a literal vector written in hundredths
N(v) ==
  Only({ Norm(arr) :
         arr \in {Filled([i \in PitchClasses |-> v[i + 1] * (Unit \div 100)])} })

Template(v, suffix, chordTones) ==
  [vec |-> N(v), suffix |-> suffix, chordTones |-> chordTones]

\* _buildEnhancedTemplates; "m7b5" stands for the suffix written with a flat
\* sign
Templates ==
  << Template(<<100, 0, 0, 0, 85, 0, 0, 95, 0, 0, 0, 0>>, "", <<0, 4, 7>>),
     Template(<<100, 0, 0, 85, 0, 0, 0, 95, 0, 0, 0, 0>>, "m", <<0, 3, 7>>),
     Template(<<100, 0, 0, 85, 0, 0, 75, 0, 0, 0, 0, 0>>, "dim", <<0, 3, 6>>),
     Template(<<100, 0, 0, 0, 85, 0, 0, 0, 80, 0, 0, 0>>, "aug", <<0, 4, 8>>),
     Template(<<100, 0, 90, 0, 0, 0, 0, 95, 0, 0, 0, 0>>, "sus2", <<0, 2, 7>>),
     Template(<<100, 0, 0, 0, 0, 90, 0, 95, 0, 0, 0, 0>>, "sus4", <<0, 5, 7>>),
     Template(<<100, 0, 0, 0, 0, 0, 0, 95, 0, 0, 0, 0>>, "5", <<0, 7>>),
     Template(<<100, 0, 0, 0, 85, 0, 0, 95, 0, 75, 0, 0>>, "6",
              <<0, 4, 7, 9>>),
     Template(<<100, 0, 0, 85, 0, 0, 0, 95, 0, 75, 0, 0>>, "m6",
              <<0, 3, 7, 9>>),
     Template(<<100, 0, 0, 0, 85, 0, 0, 95, 0, 0, 70, 0>>, "Maj7",
              <<0, 4, 7, 11>>),
     Template(<<100, 0, 0, 85, 0, 0, 0, 95, 0, 0, 70, 0>>, "mMaj7",
              <<0, 3, 7, 11>>),
     Template(<<100, 0, 0, 0, 85, 0, 0, 95, 0, 0, 75, 0>>, "7",
              <<0, 4, 7, 10>>),
     Template(<<100, 0, 0, 85, 0, 0, 0, 95, 0, 0, 75, 0>>, "m7",
              <<0, 3, 7, 10>>),
     Template(<<100, 0, 0, 85, 0, 0, 75, 0, 0, 0, 70, 0>>, "m7b5",
              <<0, 3, 6, 10>>),
     Template(<<100, 0, 0, 85, 0, 0, 75, 0, 0, 75, 0, 0>>, "dim7",
              <<0, 3, 6, 9>>),
     Template(<<100, 0, 70, 0, 0, 90, 0, 95, 0, 0, 75, 0>>, "7sus2",
              <<0, 2, 7, 10>>),
     Template(<<100, 0, 0, 0, 0, 90, 0, 95, 0, 0, 75, 0>>, "7sus4",
              <<0, 5, 7, 10>>),
     Template(<<100, 0, 80, 0, 85, 0, 0, 95, 0, 75, 0, 0>>, "6/9",
              <<0, 2, 4, 7, 9>>),
     Template(<<100, 0, 80, 85, 0, 0, 0, 95, 0, 75, 0, 0>>, "m6/9",
              <<0, 2, 3, 7, 9>>) >>

\* constructor: harmonicWeights
harmonicWeights == <<Unit, 8 * (Unit \div 10), 6 * (Unit \div 10),
                     4 * (Unit \div 10), 3 * (Unit \div 10)>>

\* constructor: the defaults of the two detection options
enableAdvancedQualities == TRUE
inversionDetection == TRUE

\* _cosineScore
CosineScore(chroma, template) ==
  Only({ Dot(a, b) : a \in {Norm(chroma)}, b \in {Norm(template)} })

\* Math.min(actual / expected, expected / actual) for expected > 0: a zero
\* actual energy gives Math.min(0, Infinity)
EnergyRatio(actualEnergy, expectedEnergy) ==
  IF actualEnergy = 0 THEN 0
  ELSE Min(RDiv(actualEnergy * Unit, expectedEnergy),
           RDiv(expectedEnergy * Unit, actualEnergy))

\* _harmonicScore
HarmonicScore(chroma, template, root) ==
  LET harmonics == <<0, 7, 4, 10, 2>>
      term(i) ==
        LET harmonic == (root + harmonics[i]) % 12
            expectedEnergy == template[harmonic]
            actualEnergy == chroma[harmonic]
        IN IF expectedEnergy > Unit \div 10
           THEN RDiv(harmonicWeights[i]
                       * EnergyRatio(actualEnergy, expectedEnergy), Unit)
           ELSE 0
  IN RDiv(term(1) + term(2) + term(3) + term(4) + term(5), Len(harmonics))

\* _findBestChord: combinedScore
CombinedScore(chroma, rotated, root) ==
  RDiv(4 * Dot(chroma, rotated) + 4 * CosineScore(chroma, rotated)
         + 2 * HarmonicScore(chroma, rotated, root), 10)

\* _enhancedConfidence as it would be without the upper clamp
EnhancedConfidenceUnclamped(chroma, template, root, templateObj, spectralClarity) ==
  LET baseConf ==
        Only({ Dot(a, b) : a \in {Norm(chroma)}, b \in {Norm(template)} })
      penalty ==
        Sum12([i \in PitchClasses |->
                 IF template[i] < Unit \div 10
                    /\ chroma[i] > 15 * (Unit \div 100)
                 THEN RDiv(3 * chroma[i], 10) ELSE 0])
      tones == templateObj.chordTones
      bonus ==
        SumSeq([k \in 1..Len(tones) |->
                  LET pc == (root + tones[k]) % 12
                  IN IF chroma[pc] > 2 * (Unit \div 10)
                     THEN RDiv(chroma[pc], 10) ELSE 0])
      clarityBonus == RDiv(spectralClarity, 20)
  IN Max(0, baseConf - penalty + bonus + clarityBonus)

\* _enhancedConfidence
EnhancedConfidence(chroma, template, root, templateObj, spectralClarity) ==
  LET baseConf ==
        Only({ Dot(a, b) : a \in {Norm(chroma)}, b \in {Norm(template)} })
      penalty ==
        Sum12([i \in PitchClasses |->
                 IF template[i] < Unit \div 10
                    /\ chroma[i] > 15 * (Unit \div 100)
                 THEN RDiv(3 * chroma[i], 10) ELSE 0])
      tones == templateObj.chordTones
      bonus ==
        SumSeq([k \in 1..Len(tones) |->
                  LET pc == (root + tones[k]) % 12
                  IN IF chroma[pc] > 2 * (Unit \div 10)
                     THEN RDiv(chroma[pc], 10) ELSE 0])
      clarityBonus == RDiv(spectralClarity, 20)
  IN Max(0, Min(Unit, baseConf - penalty + bonus + clarityBonus))

\* _measureHarmonicStrength
MeasureHarmonicStrength(chroma, template) ==
  LET totalEnergy == Sum12(chroma)
      harmonicEnergy ==
        Sum12([i \in PitchClasses |->
                 IF template[i] > Unit \div 10 THEN chroma[i] ELSE 0])
  IN IF totalEnergy > 0 THEN RDiv(harmonicEnergy * Unit, totalEnergy) ELSE 0

\* quality.startsWith('m'), on the suffixes of the templates
StartsWithM(quality) ==
  quality \in {"m", "m6", "mMaj7", "m7", "m7b5", "m6/9"}

\* _analyzeExtensions
AnalyzeExtensions(chroma, root, quality) ==
  LET isMinor == StartsWithM(quality)
      third == (root + (IF isMinor THEN 3 ELSE 4)) % 12
      fifth == (root + 7) % 12
      triadPeak == Max(chroma[root], Max(chroma[third], chroma[fifth]))
      rel(k) == RDiv(chroma[(root + k) % 12] * Unit, triadPeak + Unit \div 10)
  IN [ dom7 |-> rel(10), maj7 |-> rel(11), sixth |-> rel(9),
       ninth |-> rel(2), eleventh |-> rel(5), thirteenth |-> rel(9) ]

\* the thresholds of _detectAdvancedExtensions
Over40(x) == x > 40 * (Unit \div 100)
Over35(x) == x > 35 * (Unit \div 100)
Over30(x) == x > 30 * (Unit \div 100)

\* _detectAdvancedExtensions as it would be with the thirteenth tested only
\* after a ninth was found
DetectAdvancedExtensionsNested(chroma, detection) ==
  LET quality == detection.quality
      extensions == AnalyzeExtensions(chroma, detection.root, quality)
      pick(minor, major) == IF StartsWithM(quality) THEN minor ELSE major
      newQuality ==
        IF extensions.maj7 > extensions.dom7 /\ Over40(extensions.maj7)
        THEN IF Over35(extensions.ninth)
             THEN IF Over35(extensions.thirteenth)
                  THEN pick("mMaj13", "Maj13")
                  ELSE IF Over30(extensions.eleventh)
                       THEN pick("mMaj11", "Maj11")
                       ELSE pick("mMaj9", "Maj9")
             ELSE pick("mMaj7", "Maj7")
        ELSE IF Over40(extensions.dom7)
        THEN IF Over35(extensions.ninth)
             THEN IF Over35(extensions.thirteenth)
                  THEN pick("m13", "13")
                  ELSE IF Over30(extensions.eleventh)
                       THEN pick("m11", "11")
                       ELSE pick("m9", "9")
             ELSE pick("m7", "7")
        ELSE IF Over40(extensions.sixth)
        THEN IF Over35(extensions.ninth)
             THEN pick("m6/9", "6/9") ELSE pick("m6", "6")
        ELSE IF Over40(extensions.ninth)
        THEN pick("madd9", "add9")
        ELSE quality
  IN [detection EXCEPT !.quality = newQuality]

\* _detectAdvancedExtensions as it would be without the rule of the sixth
DetectAdvancedExtensionsNoSixth(chroma, detection) ==
  LET quality == detection.quality
      extensions == AnalyzeExtensions(chroma, detection.root, quality)
      pick(minor, major) == IF StartsWithM(quality) THEN minor ELSE major
      newQuality ==
        IF extensions.maj7 > extensions.dom7 /\ Over40(extensions.maj7)
        THEN IF Over35(extensions.thirteenth)
             THEN pick("mMaj13", "Maj13")
             ELSE IF Over35(extensions.ninth)
                  THEN IF Over30(extensions.eleventh)
                       THEN pick("mMaj11", "Maj11")
                       ELSE pick("mMaj9", "Maj9")
                  ELSE pick("mMaj7", "Maj7")
        ELSE IF Over40(extensions.dom7)
        THEN IF Over35(extensions.thirteenth)
             THEN pick("m13", "13")
             ELSE IF Over35(extensions.ninth)
                  THEN IF Over30(extensions.eleventh)
                       THEN pick("m11", "11")
                       ELSE pick("m9", "9")
                  ELSE pick("m7", "7")
        ELSE IF Over40(extensions.ninth)
        THEN pick("madd9", "add9")
        ELSE quality
  IN [detection EXCEPT !.quality = newQuality]

\* _detectAdvancedExtensions
DetectAdvancedExtensions(chroma, detection) ==
  LET quality == detection.quality
      extensions == AnalyzeExtensions(chroma, detection.root, quality)
      pick(minor, major) == IF StartsWithM(quality) THEN minor ELSE major
      newQuality ==
        IF extensions.maj7 > extensions.dom7 /\ Over40(extensions.maj7)
        THEN IF Over35(extensions.thirteenth)
             THEN pick("mMaj13", "Maj13")
             ELSE IF Over35(extensions.ninth)
                  THEN IF Over30(extensions.eleventh)
                       THEN pick("mMaj11", "Maj11")
                       ELSE pick("mMaj9", "Maj9")
                  ELSE pick("mMaj7", "Maj7")
        ELSE IF Over40(extensions.dom7)
        THEN IF Over35(extensions.thirteenth)
             THEN pick("m13", "13")
             ELSE IF Over35(extensions.ninth)
                  THEN IF Over30(extensions.eleventh)
                       THEN pick("m11", "11")
                       ELSE pick("m9", "9")
                  ELSE pick("m7", "7")
        ELSE IF Over40(extensions.sixth)
        THEN IF Over35(extensions.ninth)
             THEN pick("m6/9", "6/9") ELSE pick("m6", "6")
        ELSE IF Over40(extensions.ninth)
        THEN pick("madd9", "add9")
        ELSE quality
  IN [detection EXCEPT !.quality = newQuality]

\* quality.includes(...), on the qualities _findBestChord can produce; no
\* quality includes 'maj' in lower case
IncludesM(quality) ==
  quality \in {"m", "dim", "m6", "mMaj7", "m7", "m7b5", "dim7", "m6/9",
               "mMaj9", "mMaj11", "mMaj13", "m9", "m11", "m13", "madd9"}
IncludesDim(quality) == quality \in {"dim", "dim7"}
IncludesMaj(quality) ==
  quality \in {"Maj7", "mMaj7", "Maj9", "mMaj9", "Maj11", "mMaj11", "Maj13",
               "mMaj13"}
IncludesSixth(quality) ==
  quality \in {"6", "m6", "6/9", "m6/9", "Maj13", "mMaj13", "13", "m13"}
HasExtended(quality) ==
  quality \in {"Maj7", "mMaj7", "7", "m7", "m7b5", "dim7", "7sus2", "7sus4",
               "6/9", "m6/9", "Maj9", "mMaj9", "Maj11", "mMaj11", "Maj13",
               "mMaj13", "9", "m9", "11", "m11", "13", "m13", "add9", "madd9"}

\* _getChordTones, as the set of the tones
GetChordTones(root, quality) ==
  {root}
  \cup {(root + (IF IncludesM(quality) THEN 3 ELSE 4)) % 12}
  \cup {(root + (IF IncludesDim(quality) THEN 6 ELSE 7)) % 12}
  \cup (IF HasExtended(quality) /\ ~IncludesMaj(quality)
        THEN {(root + 10) % 12} ELSE {})
  \cup (IF HasExtended(quality) /\ IncludesMaj(quality)
        THEN {(root + 11) % 12} ELSE {})
  \cup (IF IncludesSixth(quality) THEN {(root + 9) % 12} ELSE {})

\* bassHistory.indexOf(Math.max(...bassHistory))
StrongestBass(bassHistory) ==
  CHOOSE i \in PitchClasses :
    /\ \A j \in PitchClasses : bassHistory[j] <= bassHistory[i]
    /\ \A j \in PitchClasses : j < i => bassHistory[j] < bassHistory[i]

\* _detectInversion: the bass of the inversion, or Undefined for null
DetectInversion(bassHistory, detection) ==
  LET chordTones == GetChordTones(detection.root, detection.quality)
      strongestBass == StrongestBass(bassHistory)
  IN IF /\ strongestBass \in chordTones
        /\ strongestBass # detection.root
        /\ 10 * bassHistory[strongestBass] > 13 * bassHistory[detection.root]
     THEN strongestBass ELSE Undefined

\* _findBestChord: the score of the k-th pair of a root and a template, in
\* the order of the two loops
Candidate(chroma, k) ==
  Only({ [ root |-> k \div Len(Templates),
           template |-> (k % Len(Templates)) + 1,
           score |-> CombinedScore(chroma, rotated, k \div Len(Templates)) ] :
         rotated \in {Rotate(Templates[(k % Len(Templates)) + 1].vec,
                             k \div Len(Templates))} })

\* _findBestChord: a later pair replaces an earlier one only with a greater
\* score
Better(earlier, later) ==
  IF later.score > earlier.score THEN later ELSE earlier

RECURSIVE BestTemplate(_, _, _)
\* _findBestChord: what the loops leave in best over the pairs lo..hi
BestTemplate(chroma, lo, hi) ==
  IF lo = hi THEN Candidate(chroma, lo)
  ELSE Only({ Better(earlier, later) :
              earlier \in {BestTemplate(chroma, lo, (lo + hi) \div 2)},
              later \in {BestTemplate(chroma, ((lo + hi) \div 2) + 1, hi)} })

\* _findBestChord, lines 1575-1586: the object kept for the best pair; an
\* inversion field that is not set reads as false wherever it is used
Matched(chroma, first, spectralClarity) ==
  Only({ [ root |-> first.root,
           quality |-> Templates[first.template].suffix,
           confidence |-> EnhancedConfidence(chroma, rotated, first.root,
                                             Templates[first.template],
                                             spectralClarity),
           score |-> first.score,
           harmonicStrength |-> MeasureHarmonicStrength(chroma, rotated),
           template |-> Templates[first.template].suffix,
           inversion |-> FALSE,
           bass |-> Undefined ] :
         rotated \in {Rotate(Templates[first.template].vec, first.root)} })

\* _findBestChord, lines 1593-1595
Extended(chroma, matched) ==
  IF enableAdvancedQualities
  THEN DetectAdvancedExtensions(chroma, matched) ELSE matched

\* _findBestChord, lines 1597-1605
Inverted(best, inversion) ==
  IF inversionDetection /\ best.quality # "5" /\ inversion # Undefined
  THEN [best EXCEPT !.inversion = TRUE, !.bass = inversion,
                    !.confidence = RDiv(95 * best.confidence, 100)]
  ELSE best

\* _findBestChord; the first pair always replaces the initial -Infinity
FindBestChord(chroma, bassHistory, spectralClarity) ==
  Only({ Inverted(best, DetectInversion(bassHistory, best)) :
         best \in { Extended(chroma, matched) :
                    matched \in { Matched(chroma, first, spectralClarity) :
                                  first \in {BestTemplate(chroma, 0,
                                               12 * Len(Templates) - 1)} } } })

\* constructor: bassBias
bassBias == 15 * (Unit \div 100)

\* _applyIntelligentBassBias, from the smoothed bassHistory on: the chroma
\* handed to the matching
ApplyIntelligentBassBias(chroma, bassHistory) ==
  LET dominantBass == StrongestBass(bassHistory)
      bassStrength == bassHistory[dominantBass]
      biasFactor == RDiv(bassBias * Min(Unit, 2 * bassStrength), Unit)
      peak == CHOOSE x \in {chroma[i] : i \in PitchClasses} :
                \A i \in PitchClasses : chroma[i] <= x
  IN IF bassStrength > 3 * (Unit \div 10)
     THEN [chroma EXCEPT ![dominantBass] = @ + RDiv(biasFactor * peak, Unit)]
     ELSE chroma

\* The chromas the matching is studied on: a triad on arg.root with its three
\* tones at arg.level, and the sixth, flat seventh, ninth and eleventh at the
\* given hundredths of that level
ChromaOf(a) ==
  LET third == IF a.minor THEN 3 ELSE 4
      part(pct) == RDiv(a.level * pct, 100)
      at(i) == (i - a.root + 12) % 12
  IN [i \in PitchClasses |->
        IF at(i) \in {0, third, 7} THEN a.level
        ELSE IF at(i) = 9 THEN part(a.sixth)
        ELSE IF at(i) = 10 THEN part(a.seventh)
        ELSE IF at(i) = 2 THEN part(a.ninth)
        ELSE IF at(i) = 5 THEN part(a.eleventh)
        ELSE 0]

\* The bass histories: empty when arg.bass is Undefined, else the pitch class
\* arg.bass at full strength over a root at half strength
BassHistoryOf(a) ==
  [i \in PitchClasses |->
     IF a.bass = Undefined THEN 0
     ELSE IF i = a.bass THEN Unit
     ELSE IF i = a.root THEN Unit \div 2
     ELSE 0]

\* the chroma levels of a first frame and of a steady signal
Levels == {3250, Unit}

\* the spectral clarity of the frames
Clarity == Unit \div 2

TriadInputs ==
  [ root : PitchClasses, minor : BOOLEAN, level : {Unit}, sixth : {0},
    seventh : {0}, ninth : {0}, eleventh : {0},
    bass : {Undefined} \cup PitchClasses ]
  \cup
  [ root : PitchClasses, minor : BOOLEAN, level : Levels, sixth : {0},
    seventh : {0}, ninth : {0}, eleventh : {0}, bass : {Undefined} ]

SixthInputs ==
  [ root : PitchClasses, minor : BOOLEAN, level : Levels, sixth : {100},
    seventh : {0}, ninth : {0, 30, 50, 100}, eleventh : {0},
    bass : {Undefined} ]

ThirteenthInputs ==
  [ root : PitchClasses, minor : BOOLEAN, level : Levels, sixth : {70},
    seventh : {70}, ninth : {0, 70}, eleventh : {0, 70},
    bass : {Undefined} ]

NotCalled == [called |-> FALSE]

InitMatch ==
  /\ RestConstructed
  /\ opts = TestOpts
  /\ signal = "any"
  /\ spectrum = SilentFrame
  /\ Constructed
  /\ buffers = NoBuffers
  /\ arg \in TriadInputs \cup SixthInputs \cup ThirteenthInputs
  /\ ret = NotCalled

\* update, lines 1181-1203, and _setCurrentChord: the bass bias, the matching,
\* the name of the chord and the event made of them
CallFindBestChord ==
  /\ ~ret.called
  /\ \E bassHistory \in {Filled(BassHistoryOf(arg))} :
     \E chroma \in {Filled(ApplyIntelligentBassBias(Filled(ChromaOf(arg)),
                                                    bassHistory))} :
     \E detection \in {FindBestChord(chroma, bassHistory, Clarity)} :
       ret' = [ called |-> TRUE,
                detection |-> detection,
                event |-> ChordEvent(ChordName(detection),
                                     detection.confidence, detection,
                                     Clarity) ]
  /\ UNCHANGED <<opts, signal, spectrum, clock, lastChord, lastChangeTime,
                 stableChordCount, chordConfidenceHistory, adaptiveThreshold,
                 quietFrames, loopVars, calls, obs, buffers, arg, rest>>

MatchSpec == InitMatch /\ [][CallFindBestChord]_vars

----------------------------------------------------------------------------
(* The adaptive activity gate on a steady input: _updateAdaptiveGate and the
   gate test of update.  Energies, the noise floor and the gate are
   fixed-point numbers, Unit standing for 1.0; the spectral clarity of a
   frame is in thousandths. *)

\* this.noiseFloorAlpha, in hundredths
noiseFloorAlpha == 5

\* _updateAdaptiveGate: the new this.noiseFloor and this.dynamicGate
UpdateAdaptiveGate(floor, totalEnergy, spectralClarity) ==
  LET raised == RDiv((100 - noiseFloorAlpha) * floor
                     + noiseFloorAlpha * totalEnergy, 100)
      baseGate == Max(3 * (Unit \div 100), RDiv(3 * raised, 2))
      clarityFactor == Max(500, spectralClarity)
  IN [ noiseFloor |-> raised,
       dynamicGate |-> RDiv(1000 * baseGate, clarityFactor) ]

\* update, line 1160
FailEnergy(totalEnergy, gate) ==
  ~opts.disableEnergyGate /\ totalEnergy < gate

\* the defaults' shape with the energy gate switched on or off
GateOpts(disabled) ==
  [ confEnter |-> 450, holdMsEnter |-> 2, holdMsExit |-> 2,
    requiredStableFrames |-> 3, getRms |-> FALSE, maxFps |-> 1000,
    disableEnergyGate |-> disabled ]

\* total chroma energies of a steady input: 0.5 and 3.0
Energies == { Unit \div 2, 3 * Unit }

\* the frames of one chord sounding steadily: the same candidate, clarity and
\* total chroma energy on every update
SteadyInputs ==
  { [rms |-> rmsGate, silent |-> FALSE, gated |-> FALSE, activeCount |-> 3,
     spectralClarity |-> c[1], absent |-> FALSE,
     detection |-> [name |-> "C", confidence |-> k, harmonicStrength |-> c[2]],
     totalEnergy |-> e] :
    c \in Clarities, k \in {700, 900}, e \in Energies }

\* update on the steady input: lines 1156-1168 decide whether the frame is
\* gated, the rest of update follows
GateUpdate ==
  \E g \in {UpdateAdaptiveGate(noiseFloor, spectrum.totalEnergy,
                               spectrum.spectralClarity)} :
  \E f \in {[spectrum EXCEPT
               !.gated = FailEnergy(spectrum.totalEnergy, g.dynamicGate)]} :
  \E d \in {Update(Self, f, clock, clock)} :
     /\ WithinBounds(d, clock)
     /\ Becomes(d)
     /\ obs' = Observe(f, clock, d)
     /\ noiseFloor' = g.noiseFloor
     /\ dynamicGate' = g.dynamicGate
     /\ UNCHANGED <<buffers, arg, ret, enableBassBias, bassTrack, twin, opts,
                    signal, spectrum, clock, loopVars>>

InitGate ==
  /\ opts \in {GateOpts(FALSE), GateOpts(TRUE)}
  /\ signal = "same"
  /\ spectrum \in SteadyInputs
  /\ Idle
  /\ Constructed

NextGate == GateUpdate \/ Tick \/ TickShift

GateSpec == InitGate /\ [][NextGate]_vars

----------------------------------------------------------------------------
(* Temporal consensus: _findBestChordWithConsensus and
   _computeDetectionConsensus.  Confidences are fixed-point numbers, Unit
   standing for 1.0; the weight of a detection is in units of 1/625, which
   holds 0.8^0 .. 0.8^4 exactly. *)

\* at most this many detections are in the history before the call
MaxPrior == 5

maxDetectionHistory == 8
\* _computeDetectionConsensus looks at this many detections
RecentDetections == 5
\* _findBestChordWithConsensus needs this many detections for a consensus
ConsensusMinHistory == 3
WeightUnit == 625

\* no consensus: _computeDetectionConsensus returned null
NoConsensus == [found |-> FALSE]

\* Math.pow(0.8, age - 1)
Weight(age) == (WeightUnit * 4 ^ (age - 1)) \div 5 ^ (age - 1)

\* chordKey
ChordKey(chord) == <<chord.root, chord.quality>>

\* the entry that chordCounts holds for the key of recent[i]
Entry(recent, i) ==
  LET n == Len(recent)
      same(j) == ChordKey(recent[j]) = ChordKey(recent[i])
  IN [ count |-> SumSeq([j \in 1..n |->
                           IF same(j) THEN Weight(n - j + 1) ELSE 0]),
       totalConf |-> SumSeq([j \in 1..n |->
                           IF same(j)
                           THEN recent[j].confidence * Weight(n - j + 1)
                           ELSE 0]),
       detection |-> recent[CHOOSE j \in 1..n :
                              same(j) /\ \A k \in 1..(j - 1) : ~same(k)] ]

\* consistencyScore of an entry: count * avgConf, in units of 1/625
ConsistencyScore(entry) == entry.totalConf

\* _computeDetectionConsensus
ComputeDetectionConsensus(detectionHistory) ==
  LET len == Len(detectionHistory)
      recent == SubSeq(detectionHistory, Max(1, len - RecentDetections + 1), len)
      n == Len(recent)
      \* the keys of chordCounts in insertion order
      keys == { i \in 1..n :
                  \A k \in 1..(i - 1) : ChordKey(recent[k]) # ChordKey(recent[i]) }
      eligible == { i \in keys :
                      /\ ConsistencyScore(Entry(recent, i)) > 0
                      /\ 2 * Entry(recent, i).count >= 3 * WeightUnit }
  IN IF eligible = {}
     THEN NoConsensus
     ELSE LET best == CHOOSE i \in eligible : \A j \in eligible :
                        \/ ConsistencyScore(Entry(recent, i))
                             > ConsistencyScore(Entry(recent, j))
                        \/ /\ ConsistencyScore(Entry(recent, i))
                                = ConsistencyScore(Entry(recent, j))
                           /\ i <= j
              bestEntry == Entry(recent, best)
          IN [ found |-> TRUE,
               detection |->
                 [bestEntry.detection EXCEPT
                    !.confidence = Min(Unit, RDiv(11 * bestEntry.totalConf,
                                                  10 * bestEntry.count))] ]

\* line 1505 as it would be if the consensus had to exceed the frame's match
ConsensusWinsStrict(consensus, currentBest) ==
  /\ consensus.found
  /\ consensus.detection.confidence > currentBest.confidence

\* line 1505: the consensus is preferred to the frame's match
ConsensusWins(consensus, currentBest) ==
  /\ consensus.found
  /\ 10 * consensus.detection.confidence > 9 * currentBest.confidence

\* _findBestChordWithConsensus after _findBestChord returned currentBest: the
\* detection it returns and the history it leaves
FindBestChordWithConsensus(detectionHistory, currentBest) ==
  LET pushed == Append(detectionHistory, currentBest)
      trimmed == IF Len(pushed) > maxDetectionHistory THEN Tail(pushed)
                 ELSE pushed
      consensus == IF Len(trimmed) >= ConsensusMinHistory
                   THEN ComputeDetectionConsensus(trimmed)
                   ELSE NoConsensus
  IN [ detectionHistory |-> trimmed,
       result |-> IF ConsensusWins(consensus, currentBest)
                  THEN [consensus.detection EXCEPT !.consensusBoosted = TRUE]
                  ELSE currentBest ]

\* the (root, quality) pairs of the detections: C major and A minor
ConsensusKeys == { <<0, "">>, <<9, "m">> }
ConsensusConfidences == { 6 * (Unit \div 10), Unit }

\* what _findBestChord returned on frame number frame
FrameDetections(frame) ==
  { [ root |-> k[1], quality |-> k[2], confidence |-> c, frame |-> frame,
      consensusBoosted |-> FALSE ] :
    k \in ConsensusKeys, c \in ConsensusConfidences }

\* the histories of n detections, one per frame 1..n
RECURSIVE Histories(_)
Histories(n) ==
  IF n = 0 THEN { <<>> }
  ELSE { Append(h, d) : h \in Histories(n - 1), d \in FrameDetections(n) }

ConsensusInputs ==
  UNION { { [detectionHistory |-> h, currentBest |-> d] :
            h \in Histories(n), d \in FrameDetections(n + 1) } :
          n \in 0..MaxPrior }

InitConsensus ==
  /\ RestConstructed
  /\ opts = TestOpts
  /\ signal = "any"
  /\ spectrum = SilentFrame
  /\ Constructed
  /\ buffers = NoBuffers
  /\ arg \in ConsensusInputs
  /\ ret = NotCalled

CallFindBestChordWithConsensus ==
  /\ ~ret.called
  /\ \E r \in {FindBestChordWithConsensus(arg.detectionHistory,
                                          arg.currentBest)} :
       ret' = [ called |-> TRUE, result |-> r.result,
                detectionHistory |-> r.detectionHistory ]
  /\ UNCHANGED <<opts, signal, spectrum, clock, lastChord, lastChangeTime,
                 stableChordCount, chordConfidenceHistory, adaptiveThreshold,
                 quietFrames, loopVars, calls, obs, buffers, arg, rest>>

ConsensusSpec == InitConsensus /\ [][CallFindBestChordWithConsensus]_vars

----------------------------------------------------------------------------
(* Matching the chords of the template bank: each input sounds the chord
   tones of one template over one root, with or without a bass; the detection
   then passes the consensus of a steady input's third frame. *)

ToneRoots == {0, 9}

\* the chord tones of template number k, as a set of semitone offsets
ChordTonesOf(k) ==
  { Templates[k].chordTones[i] : i \in 1..Len(Templates[k].chordTones) }

\* the chroma with the chord tones of template a.template over a.root at
\* a.level and nothing else; template 0 stands for a cluster of all twelve
\* pitch classes
ToneChroma(a) ==
  [i \in PitchClasses |->
     IF a.template = 0 \/ ((i - a.root + 12) % 12) \in ChordTonesOf(a.template)
     THEN a.level ELSE 0]

\* the chroma level of the chord tones: 0.9
ToneLevel == 9 * (Unit \div 10)

ToneInputs ==
  [ root : ToneRoots, template : 1..Len(Templates), level : {ToneLevel},
    bass : {Undefined} \cup PitchClasses ]
  \cup
  [ root : ToneRoots, template : {0}, level : {ToneLevel}, bass : {Undefined} ]

\* the detection _findBestChord returned on frame number frame, as the history
\* holds it
Stamped(detection, frame) ==
  [ root |-> detection.root, quality |-> detection.quality,
    confidence |-> detection.confidence, score |-> detection.score,
    harmonicStrength |-> detection.harmonicStrength,
    template |-> detection.template, inversion |-> detection.inversion,
    bass |-> detection.bass, frame |-> frame, consensusBoosted |-> FALSE ]

InitTones ==
  /\ RestConstructed
  /\ opts = TestOpts
  /\ signal = "any"
  /\ spectrum = SilentFrame
  /\ Constructed
  /\ buffers = NoBuffers
  /\ arg \in ToneInputs
  /\ ret = NotCalled

\* update, lines 1181-1203, and _setCurrentChord on the third frame of a steady
\* input: the bass bias, the matching, the consensus with the two frames
\* before, the name of the chord and the event made of them
CallFindBestChordOnTones ==
  /\ ~ret.called
  /\ \E bassHistory \in {Filled(BassHistoryOf(arg))} :
     \E chroma \in {Filled(ApplyIntelligentBassBias(Filled(ToneChroma(arg)),
                                                    bassHistory))} :
     \E detection \in {FindBestChord(chroma, bassHistory, Clarity)} :
     \E final \in {FindBestChordWithConsensus(
                     <<Stamped(detection, 1), Stamped(detection, 2)>>,
                     Stamped(detection, 3)).result} :
       ret' = [ called |-> TRUE,
                detection |-> detection,
                final |-> final,
                event |-> ChordEvent(ChordName(final), final.confidence,
                                     final, Clarity) ]
  /\ UNCHANGED <<opts, signal, spectrum, clock, lastChord, lastChangeTime,
                 stableChordCount, chordConfidenceHistory, adaptiveThreshold,
                 quietFrames, loopVars, calls, obs, buffers, arg, rest>>

ToneSpec == InitTones /\ [][CallFindBestChordOnTones]_vars

----------------------------------------------------------------------------
(* The loudness gate: chords with pauses, on a detector with a loudness
   provider and buffers *)

InitQuiet ==
  /\ RestConstructed
  /\ opts = GatedOpts
  /\ signal = "pauses"
  /\ spectrum = SilentFrame
  /\ Constructed
  /\ arg = NoArg
  /\ ret = NoArg
  /\ buffers = ConstructedBuffers(8)

NextQuiet == UpdateWithBuffers \/ Tick

QuietSpec == InitQuiet /\ [][NextQuiet]_vars

----------------------------------------------------------------------------
(* Two detectors that differ only in confExit, given the same frames at the
   same clock readings *)

\* the defaults' shape with this.confExit
ExitOpts(exit) ==
  [ confEnter |-> 450, holdMsEnter |-> 2, holdMsExit |-> 2,
    requiredStableFrames |-> 3, getRms |-> FALSE, maxFps |-> 1000,
    confExit |-> exit ]

\* the default confExit, and the values the second detector is given
DefaultConfExit == 350
OtherConfExits == {0, 900}

\* the fields of detector d together with its confExit
Configured(d, exit) ==
  [ lastChord |-> d.lastChord,
    lastChangeTime |-> d.lastChangeTime,
    stableChordCount |-> d.stableChordCount,
    chordConfidenceHistory |-> d.chordConfidenceHistory,
    adaptiveThreshold |-> d.adaptiveThreshold,
    quietFrames |-> d.quietFrames,
    calls |-> d.calls,
    confExit |-> exit ]

InitTwin ==
  /\ opts = ExitOpts(DefaultConfExit)
  /\ signal = "any"
  /\ spectrum = SilentFrame
  /\ Constructed \/ LongRunning
  /\ buffers = NoBuffers
  /\ arg = NoArg
  /\ ret = NoArg
  /\ noiseFloor = 0
  /\ dynamicGate = 400
  /\ enableBassBias = TRUE
  /\ bassTrack = [i \in 0..11 |-> 0]
  /\ \E exit \in OtherConfExits : twin = Configured(Self, exit)

\* both detectors are given frame f at the same clock reading
TwinUpdate ==
  \E f \in Frames :
    \E d \in {Update(Configured(Self, opts.confExit), f, clock, clock)},
       e \in {Update([twin EXCEPT !.calls = <<>>], f, clock, clock)} :
       /\ WithinBounds(d, clock)
       /\ WithinBounds(e, clock)
       /\ Becomes(d)
       /\ twin' = e
       /\ obs' = Observe(f, clock, d)
       /\ UNCHANGED <<buffers, arg, ret, noiseFloor, dynamicGate,
                      enableBassBias, bassTrack, opts, signal, spectrum,
                      clock, loopVars>>

\* time passes between calls
TwinTick ==
  /\ clock < MaxClock
  /\ clock' = clock + 1
  /\ calls' = <<>>
  /\ twin' = [twin EXCEPT !.calls = <<>>]
  /\ UNCHANGED <<buffers, arg, ret, noiseFloor, dynamicGate, enableBassBias,
                 bassTrack, opts, signal, spectrum, lastChord, lastChangeTime,
                 stableChordCount, chordConfidenceHistory, adaptiveThreshold,
                 quietFrames, loopVars, obs>>

NextTwin == TwinUpdate \/ TwinTick

TwinSpec == InitTwin /\ [][NextTwin]_vars

----------------------------------------------------------------------------
(* The bass bias over several updates: the smoothed bass history is state,
   each update mixes the bass region's chroma into it when the bias is
   enabled *)

\* the detector is given at most this many updates
MaxBassUpdates == 3

\* this.bassAlpha, in tenths
bassAlpha == 2

\* what _analyzeBassRegion returns: null when the bass region is empty, else a
\* chroma normalised to 1 with pitch class pc sounding
BassRegions ==
  { [present |-> FALSE, pc |-> 0] } \cup [ present : {TRUE}, pc : {0, 4, 7} ]

BassChromaOf(region) ==
  [i \in PitchClasses |-> IF i = region.pc THEN Unit ELSE 0]

\* lines 1431-1441 as they would be if the history were smoothed whether or
\* not the bias is enabled
SmoothedBassAlways(enabled, bassHistory, region) ==
  IF ~region.present
  THEN bassHistory
  ELSE [i \in PitchClasses |->
          RDiv((10 - bassAlpha) * bassHistory[i]
               + bassAlpha * BassChromaOf(region)[i], 10)]

\* _applyIntelligentBassBias, lines 1431-1441: this.bassHistory afterwards
SmoothedBass(enabled, bassHistory, region) ==
  IF ~enabled \/ ~region.present
  THEN bassHistory
  ELSE [i \in PitchClasses |->
          RDiv((10 - bassAlpha) * bassHistory[i]
               + bassAlpha * BassChromaOf(region)[i], 10)]

\* _applyIntelligentBassBias: the chroma it returns, smoothed being the
\* history it has just updated
BiasedChroma(enabled, chroma, smoothed, region) ==
  IF ~enabled \/ ~region.present
  THEN chroma
  ELSE ApplyIntelligentBassBias(chroma, smoothed)

\* the chords played: C major and A minor, whose third is pitch class 0
BassChords ==
  { [root |-> 0, template |-> 1, level |-> ToneLevel],
    [root |-> 9, template |-> 2, level |-> ToneLevel] }

InitBass ==
  /\ opts = TestOpts
  /\ signal = "any"
  /\ spectrum = SilentFrame
  /\ Constructed
  /\ buffers = NoBuffers
  /\ arg = NoArg
  /\ ret = NotCalled
  /\ noiseFloor = 0
  /\ dynamicGate = 400
  /\ enableBassBias \in BOOLEAN
  /\ bassTrack = [i \in 0..11 |-> 0]
  /\ twin = NoTwin

\* update, lines 1181-1203, one tick after the update before: the bass bias
\* with its smoothing, the matching, the name and the event
BassUpdate ==
  /\ clock < MaxBassUpdates
  /\ \E chord \in BassChords, region \in BassRegions :
     \E smoothed \in {Filled(SmoothedBass(enableBassBias, bassTrack, region))} :
     \E chroma \in {Filled(BiasedChroma(enableBassBias,
                                        Filled(ToneChroma(chord)),
                                        smoothed, region))} :
     \E detection \in {FindBestChord(chroma, smoothed, Clarity)} :
       /\ bassTrack' = smoothed
       /\ arg' = [chord |-> chord, region |-> region]
       /\ ret' = [ called |-> TRUE,
                   detection |-> detection,
                   event |-> ChordEvent(ChordName(detection),
                                        detection.confidence, detection,
                                        Clarity) ]
  /\ clock' = clock + 1
  /\ UNCHANGED <<opts, signal, spectrum, lastChord, lastChangeTime,
                 stableChordCount, chordConfidenceHistory, adaptiveThreshold,
                 quietFrames, loopVars, calls, obs, buffers, noiseFloor,
                 dynamicGate, enableBassBias, twin>>

BassSpec == InitBass /\ [][BassUpdate]_vars

----------------------------------------------------------------------------
(* Properties *)

\* the chord-set invocations among calls
SetEvents(cs) == { i \in 1..Len(cs) : cs[i].name # NoChord }

\* C1: every chord-set callback happens in an update that reached the
\* hysteresis step with that chord as its candidate, whose candidate
\* confidence is >= the adaptive entry threshold of that update and whose
\* clock reading is more than holdMsEnter after the previous chord change;
\* no other path of update emits a chord name.
C1_SetNeedsBandAndDwell ==
  [][\A i \in SetEvents(calls') :
        /\ obs'.path = "detect"
        /\ calls'[i].name = obs'.name
        /\ calls'[i].confidence >= adaptiveThreshold'
        /\ clock - lastChangeTime > opts.holdMsEnter]_vars

\* a chord was set by the latest update, with hold times configured
C1_Witness ==
  /\ SetEvents(calls) # {}
  /\ opts.holdMsEnter > 0

\* C2: one update call invokes the chord callback at most once.
C2_AtMostOneCallback == Len(calls) <= 1

\* the latest update replaced one held chord by another
C2_Witness ==
  /\ Len(calls) = 1
  /\ calls[1].name # NoChord
  /\ Len(chordConfidenceHistory) >= 2

\* C3: with requiredStableFrames > 1, a held chord X is replaced by a
\* candidate Y only after Y has been the candidate with confidence >= the
\* entry threshold on the required number (the adaptive requiredStableFrames)
\* of consecutive updates.
C3_ReplaceNeedsStableRun ==
  [][(/\ opts.requiredStableFrames > 1
      /\ lastChord # NoChord
      /\ lastChord' \notin {lastChord, NoChord})
       => obs'.runLen >= GetAdaptiveStableFrames(calls'[Len(calls')])]_vars

\* C4: with requiredStableFrames > 1 and no chord held, a chord N is set only
\* after N has been the candidate with confidence >= the entry threshold on
\* the required number (the adaptive requiredStableFrames) of consecutive
\* updates.
C4_FirstChordNeedsStableRun ==
  [][(/\ opts.requiredStableFrames > 1
      /\ lastChord = NoChord
      /\ lastChord' # NoChord)
       => obs'.runLen >= GetAdaptiveStableFrames(calls'[Len(calls')])]_vars

\* C5: with a positive holdMsExit, a held chord is cleared for low confidence
\* only when the confidence has stayed below the exit threshold on every
\* update for longer than holdMsExit.
C5_ClearNeedsPersistentLow ==
  [][(/\ opts.holdMsExit > 0
      /\ lastChord # NoChord
      /\ lastChord' = NoChord
      /\ obs'.path = "detect")
       => clock - obs'.lowSince > opts.holdMsExit]_vars

\* C6: once every candidate stays below the exit threshold, with update called
\* and the clock advancing forever, a held chord is eventually cleared.
C6_LowConfidenceClears ==
  (signal = "lowconf" /\ lastChord # NoChord) ~> (lastChord = NoChord)

C8_NoUpdateWhileStopped == ~updatedWhileStopped

\* C9: a candidate that has met the entry threshold on requiredStableFrames
\* consecutive updates, with the enter hold time elapsed, is set: locking in
\* never needs more qualifying frames than the configured requiredStableFrames.
C9_RequiredFramesWithinConfigured ==
  [][(/\ obs'.path = "detect"
      /\ obs'.name # lastChord
      /\ obs'.runLen >= opts.requiredStableFrames
      /\ clock - lastChangeTime > opts.holdMsEnter
      /\ stableChordCount' # stableChordCount)
       => lastChord' = obs'.name]_vars

\* C10 as claimed: a candidate whose confidence is below the configured
\* confEnter never causes a chord-set callback.
C10_BelowConfEnterNeverSet ==
  \A i \in SetEvents(calls) : calls[i].confidence >= opts.confEnter

\* C10 as amended: a candidate whose confidence is below
\* max(0.25, min(0.65, confEnter - 0.11)) never causes a chord-set callback.
C10_BelowFloorNeverSet ==
  \A i \in SetEvents(calls) :
    calls[i].confidence >=
      Max(ThresholdMin, Min(ThresholdMax, opts.confEnter - 110))

\* a chord was set on a candidate below confEnter
C10_Witness ==
  \E i \in SetEvents(calls) : calls[i].confidence < opts.confEnter

C12_HistoryResetOnEverySet ==
  [][SetEvents(calls') # {} =>
       chordConfidenceHistory' = <<calls'[1].confidence>>]_vars

\* C12 as amended: right after a chord-set transition from no chord held
\* (Silent->Holding) the confidence history holds only the confidence of the
\* chord just set; a set that replaces a held chord appends its confidence to
\* the history of the chords before it.
C12_HistoryFreshOnFirstSet ==
  [][SetEvents(calls') # {} =>
       IF lastChord = NoChord
       THEN chordConfidenceHistory' = <<calls'[1].confidence>>
       ELSE \/ chordConfidenceHistory' =
                 Append(chordConfidenceHistory, calls'[1].confidence)
            \/ /\ Len(chordConfidenceHistory) = MaxConfidenceHistory
               /\ chordConfidenceHistory' =
                    Append(Tail(chordConfidenceHistory), calls'[1].confidence)]_vars

\* a chord was set from no chord held, three or more milliseconds into the run
C12_Witness ==
  /\ SetEvents(calls) # {}
  /\ Len(chordConfidenceHistory) = 1
  /\ lastChangeTime >= 3

\* C13: a Holding->Silent transition invokes the callback once, with exactly
\* {name: null, confidence: 0}, and leaves the confidence history empty and
\* the stable-frame counter at 0; with no chord held, _clearChord emits
\* nothing and changes nothing.
C13_ClearPayloadAndReset ==
  [][/\ (lastChord # NoChord /\ lastChord' = NoChord) =>
          /\ calls' = <<[name |-> NoChord, confidence |-> 0]>>
          /\ chordConfidenceHistory' = <<>>
          /\ stableChordCount' = 0
     /\ lastChord = NoChord => ClearChord(Self, clock) = Self]_vars

\* the latest update cleared a held chord that had a history of its own
C13_Witness ==
  /\ calls = <<[name |-> NoChord, confidence |-> 0]>>
  /\ lastChord = NoChord
  /\ lastChangeTime = clock
  /\ clock > 1

C16_NoProviderOrNoChromaNoChange ==
  [][obs'.path \in {"absent", "silent"} =>
       /\ calls' = <<>>
       /\ lastChord' = lastChord
       /\ lastChangeTime' = lastChangeTime
       /\ stableChordCount' = stableChordCount
       /\ chordConfidenceHistory' = chordConfidenceHistory]_vars

\* the latest update read an all-zero spectrum while a chord had been held
\* for longer than 1.5 x holdMsExit
C16_Witness ==
  /\ obs.path = "silent"
  /\ lastChord # NoChord
  /\ opts.holdMsExit > 0
  /\ 2 * (clock - lastChangeTime) > 3 * opts.holdMsExit

\* C14: every chord-set event with inversion = true carries a bass that is not
\* null and names the bass pitch class of the inversion, whichever of the 12
\* pitch classes that is, and this name is the part of the event's name after
\* its final "/"; every event with inversion = false carries bass = null.
C14_InversionCarriesBass ==
  ret.called =>
    LET event == ret.event
        name == event.name
    IN IF event.inversion
       THEN /\ event.bass # Null
            /\ event.bass = PcToName(ret.detection.bass)
            /\ Len(name) > 2
            /\ name[Len(name) - 1] = "/"
            /\ name[Len(name)] = event.bass
       ELSE event.bass = Null

\* C17: for each of the 12 roots a chroma with only the root, the major third
\* and the fifth at full strength is matched with that root and quality "",
\* and one with the minor third instead with that root and quality "m".
C17_TriadsDetected ==
  ret.called /\ arg \in TriadInputs =>
    /\ ret.detection.root = arg.root
    /\ ret.detection.quality = (IF arg.minor THEN "m" ELSE "")

\* the minor triad on B was matched
C17_Witness ==
  /\ ret.called
  /\ arg \in TriadInputs
  /\ arg.root = 11
  /\ arg.minor
  /\ ret.detection.root = 11
  /\ ret.detection.quality = "m"

\* C18: with no energy at the flat seventh and the major seventh and the
\* root, third, fifth and sixth at full strength (the sixth above 0.4 of the
\* triad peak), the quality is "6" for a major third and "m6" for a minor
\* third, "6/9" or "m6/9" exactly when the ninth is above 0.35 of the triad
\* peak, and never a label of the seventh family.
C18_SixthChords ==
  ret.called /\ arg \in SixthInputs =>
    LET extensions ==
          AnalyzeExtensions(ChromaOf(arg), arg.root,
                            IF arg.minor THEN "m" ELSE "")
        quality == ret.detection.quality
    IN Over40(extensions.sixth) /\ extensions.dom7 = 0 /\ extensions.maj7 = 0
       => /\ ret.detection.root = arg.root
          /\ quality = IF Over35(extensions.ninth)
                       THEN (IF arg.minor THEN "m6/9" ELSE "6/9")
                       ELSE (IF arg.minor THEN "m6" ELSE "6")
          /\ quality \notin
               {"7", "m7", "9", "m9", "11", "m11", "13", "m13", "Maj7",
                "mMaj7", "Maj9", "mMaj9", "Maj11", "mMaj11", "Maj13",
                "mMaj13", "m7b5", "dim7", "7sus2", "7sus4"}

\* a minor chord with a sixth and a weak ninth was matched as "m6"
C18_Witness ==
  /\ ret.called
  /\ arg \in SixthInputs
  /\ arg.minor
  /\ arg.ninth = 30
  /\ ret.detection.quality = "m6"
  /\ ret.detection.root = arg.root

\* C19: when, at the matched root, the flat seventh is above 0.4 of the triad
\* peak, the major seventh is not both greater than it and above 0.4, and the
\* thirteenth (the major sixth) is above 0.35, the quality is "13", or "m13"
\* for a minor base, whatever the energies of the ninth and the eleventh.
C19_ThirteenthOverrides ==
  ret.called =>
    LET detection == ret.detection
        extensions ==
          AnalyzeExtensions(
            ApplyIntelligentBassBias(ChromaOf(arg), BassHistoryOf(arg)),
            detection.root, detection.template)
    IN /\ Over40(extensions.dom7)
       /\ ~(extensions.maj7 > extensions.dom7 /\ Over40(extensions.maj7))
       /\ Over35(extensions.thirteenth)
       => detection.quality =
            IF StartsWithM(detection.template) THEN "m13" ELSE "13"

\* a chord with flat seventh, thirteenth and eleventh but no ninth was matched
\* as "13"
C19_Witness ==
  /\ ret.called
  /\ arg \in ThirteenthInputs
  /\ arg.ninth = 0
  /\ arg.eleventh = 70
  /\ ret.detection.root = arg.root
  /\ ret.detection.quality = "13"

\* C20: _pcToName is total on integers: for every integer pc it returns the
\* name at index pc mod 12 (the mathematical modulo, 0..11) of C, C#, D, D#,
\* E, F, F#, G, G#, A, A#, B; 12 gives "C" and -1 gives "B".
C20_PcToNameWraps ==
  ret # NoArg =>
    /\ ret = NoteNames[(arg % 12) + 1]
    /\ arg = 12 => ret = "C"
    /\ arg = -1 => ret = "B"

\* _pcToName was called with -1
C20_Witness == arg = -1 /\ ret = "B"

\* C21: with the energy gate enabled, an input whose total chroma energy has
\* the same positive value on every update is never classified inactive by the
\* dynamic gate, so no update on it takes the silence path and a chord held on
\* it is never cleared there.
C21_SteadyInputNeverGated ==
  ~opts.disableEnergyGate => obs.path # "gate"

\* C22: the emitted events follow the state changes.  Every event an update
\* emits carries a name that differs from the previously emitted one (the
\* held chord, "no chord" at first), and the held chord is afterwards the name
\* of the last event: so a {name: null} event is emitted only while a chord is
\* held, never first and never twice in a row, and no chord name is emitted in
\* two consecutive events.
C22_EventsFollowStateChanges ==
  [][ /\ \A i \in 1..Len(calls') :
           calls'[i].name # (IF i = 1 THEN lastChord ELSE calls'[i - 1].name)
      /\ lastChord' = IF calls' = <<>> THEN lastChord
                      ELSE calls'[Len(calls')].name ]_vars

\* a held chord was cleared by an update whose candidate was that chord
C22_Witness ==
  /\ Len(calls) = 1
  /\ calls[1].name = NoChord
  /\ lastChord = NoChord
  /\ obs.path = "detect"
  /\ obs.name # NoChord

\* the accumulated weight of the detections with this (root, quality) pair
\* among the last 5 of history h, and their weight-times-confidence sum
PairWeight(h, key) ==
  LET n == Len(h)
  IN SumSeq([j \in 1..n |->
               IF n - j < RecentDetections /\ ChordKey(h[j]) = key
               THEN Weight(n - j + 1) ELSE 0])

PairScore(h, key) ==
  LET n == Len(h)
  IN SumSeq([j \in 1..n |->
               IF n - j < RecentDetections /\ ChordKey(h[j]) = key
               THEN h[j].confidence * Weight(n - j + 1) ELSE 0])

\* C23 (as stated): the consensus candidate replaces the current frame's best
\* match only when its (root, quality) pair has accumulated weight >= 1.5 over
\* the last 5 detections and its confidence-weighted score (the confidence the
\* consensus carries) exceeds that of the current frame's best match; otherwise
\* the current frame's best match is passed on unchanged.
C23_ConsensusReplacesOnlyWhenBetter ==
  ret.called =>
    IF ret.result.consensusBoosted
    THEN /\ 2 * PairWeight(ret.detectionHistory, ChordKey(ret.result))
              >= 3 * WeightUnit
         /\ ret.result.confidence > arg.currentBest.confidence
    ELSE ret.result = arg.currentBest

\* C23 (amended): the consensus candidate replaces the current frame's best
\* match exactly when the history, the current match included, holds at least
\* 3 detections, some (root, quality) pair has accumulated weight >= 1.5 over
\* the last 5 of them, and the pair with the highest weighted confidence sum
\* among those has min(1, 1.1 x its weighted mean confidence) above 0.9 x the
\* confidence of the current frame's best match; the result then carries that
\* pair and that boosted confidence.  Otherwise the current frame's best match
\* is passed on unchanged.
C23_ConsensusReplacesWhenNearlyAsConfident ==
  ret.called =>
    LET h == ret.detectionHistory
        heavy == { k \in ConsensusKeys :
                     2 * PairWeight(h, k) >= 3 * WeightUnit }
        top == { k \in heavy :
                   \A o \in heavy : PairScore(h, k) >= PairScore(h, o) }
        boosted(k) == Min(Unit, RDiv(11 * PairScore(h, k),
                                     10 * PairWeight(h, k)))
        near(k) == 10 * boosted(k) > 9 * arg.currentBest.confidence
    IN /\ h = Append(arg.detectionHistory, arg.currentBest)
       /\ IF ret.result.consensusBoosted
          THEN /\ Len(h) >= ConsensusMinHistory
               /\ ChordKey(ret.result) \in top
               /\ near(ChordKey(ret.result))
               /\ ret.result.confidence = boosted(ChordKey(ret.result))
          ELSE /\ ret.result = arg.currentBest
               /\ \/ Len(h) < ConsensusMinHistory
                  \/ heavy = {}
                  \/ \E k \in top : ~near(k)

\* the consensus replaced the frame's match by an earlier detection of another
\* chord, with a boosted confidence below 1
C23_Witness ==
  /\ ret.called
  /\ ret.result.consensusBoosted
  /\ ret.result.confidence < Unit
  /\ ret.result.frame < arg.currentBest.frame
  /\ ChordKey(ret.result) # ChordKey(arg.currentBest)

\* C24: an inversion is reported only when the dominant smoothed-bass pitch
\* class is a chord tone of the detected chord (one of the semitone offsets
\* the template of that quality lists as chord tones) other than the root, and
\* its smoothed bass energy exceeds 1.3 x the root's.
C24_InversionOnlyOnChordTones ==
  (ret.called /\ ret.detection.inversion) =>
    LET d == ret.detection
        bassHistory == BassHistoryOf(arg)
        offset == (d.bass - d.root + 12) % 12
    IN /\ d.bass = StrongestBass(bassHistory)
       /\ d.bass # d.root
       /\ \A k \in 1..Len(Templates) :
            Templates[k].suffix = d.quality => offset \in ChordTonesOf(k)
       /\ 10 * bassHistory[d.bass] > 13 * bassHistory[d.root]

\* the base qualities that are not a plain major or minor triad
OtherBases ==
  {"sus2", "sus4", "dim", "aug", "5", "dim7", "m7b5", "7sus2", "7sus4"}

\* C25: extension detection only upgrades the matched base chord: when the
\* best-matching template is not a plain major or minor triad (sus2, sus4,
\* dim, aug, 5, dim7, half-diminished, 7sus2, 7sus4), the output quality is
\* that base quality, never a major- or minor-family label.
C25_OtherBasesKeepQuality ==
  (ret.called /\ ret.detection.template \in OtherBases) =>
    ret.detection.quality = ret.detection.template

\* C28: the confidence of every detection candidate and of every emitted
\* event lies in [0,1], also after the inversion penalty (x 0.95) and the
\* consensus boost (x 1.1).
C28_ConfidencesInUnitRange ==
  ret.called =>
    /\ ret.detection.confidence \in 0..Unit
    /\ ret.final.confidence \in 0..Unit
    /\ ret.event.confidence \in 0..Unit

\* a perfectly matched chord was marked as an inversion (confidence 0.95) and
\* then boosted by the consensus, the event carrying confidence 1
C28_Witness ==
  /\ ret.called
  /\ ret.detection.inversion
  /\ ret.detection.confidence = 95 * (Unit \div 100)
  /\ ret.final.consensusBoosted
  /\ ret.event.confidence = Unit

\* C26: with a loudness provider configured, an update whose RMS is below
\* rmsGate returns without fetching a spectral frame and without emitting a
\* chord name; the silence handling that may clear the held chord runs only
\* once quietFramesMax (2) updates in a row have been below the gate (the
\* update before was below it too), and any update at or above the gate resets
\* the quiet-frame count to 0.
C26_QuietUpdatesWaitAndSkipTheFetch ==
  [][obs' # obs =>
       IF obs'.path = "rms"
       THEN /\ \A i \in DOMAIN buffers'.reads : buffers'.reads[i].op # "fetch"
            /\ \A i \in DOMAIN calls' : calls'[i].name = NoChord
            /\ quietFrames' = quietFrames + 1
            /\ obs.path # "rms" =>
                 /\ calls' = <<>>
                 /\ lastChord' = lastChord
                 /\ lastChangeTime' = lastChangeTime
       ELSE quietFrames' = 0]_vars

\* the second quiet update in a row cleared the held chord
C26_Witness ==
  /\ obs.path = "rms"
  /\ quietFrames = quietFramesMax
  /\ Len(calls) = 1
  /\ calls[1].name = NoChord
  /\ buffers.reads = <<>>

\* C27: after every update that reaches template matching, the adaptive
\* entry threshold lies in [0.25, 0.65], for every configured confEnter and
\* every signal.
C27_AdaptiveThresholdInRange ==
  obs.path = "detect" => adaptiveThreshold \in ThresholdMin..ThresholdMax

\* a detector configured with confEnter 0.9 matched a frame and its threshold
\* is 0.65
C27_Witness ==
  /\ obs.path = "detect"
  /\ opts.confEnter > ThresholdMax
  /\ adaptiveThreshold = ThresholdMax

C30_NoBiasNoInversion ==
  (inversionDetection /\ ~enableBassBias) =>
    /\ \A i \in PitchClasses : bassTrack[i] = 0
    /\ ret.called =>
         /\ ~ret.detection.inversion
         /\ ret.detection.bass = Undefined
         /\ ~ret.event.inversion

\* with the bias disabled, A minor was matched on the third update while the
\* bass region sounded its fifth, and the bass history is still all zero
C30_Witness ==
  /\ ~enableBassBias
  /\ clock = 3
  /\ ret.called
  /\ arg.region.present
  /\ arg.region.pc = 4
  /\ arg.chord.root = 9
  /\ ret.detection.root = 9
  /\ ret.detection.quality = "m"
  /\ bassTrack[4] = 0

====
